---- MODULE Spec2Model ----
(***************************************************************************)
(* Model of the SHIPS diagnostic-file ingestion (ships/ships.py):          *)
(* Ships.get_diag_names, Ships.parse_and_save_to_db and                    *)
(* Ships.get_storm_obs, over the sqlite table they create and read.        *)
(*                                                                         *)
(* Text is modelled character by character: a Python str is a TLA+ string  *)
(* (a sequence of characters), a line of the raw file is the text as it    *)
(* stands in the file, blanks included, and str.strip, str.split,          *)
(* str.isdigit, slicing, datetime.strptime and strftime are computed on it *)
(* as Python computes them.                                                *)
(***************************************************************************)
EXTENDS Integers, Sequences, FiniteSets, TLC

VARIABLES input, pc, err, linenum, line, fields, name, row, rows, table, tx, ATCF_ID, data,
          runs, first,
          at, basin, retrieved, rawfile, docfile, exc, execs,
          doclines, docpos, parameter_descriptions

\* The variables of parse_and_save_to_db and get_storm_obs, those of the setup script
ingestVars == <<input, pc, err, linenum, line, fields, name, row, rows, table, tx, ATCF_ID, data,
                runs, first>>

scriptVars == <<at, basin, retrieved, rawfile, docfile, exc, execs>>

docVars == <<doclines, docpos, parameter_descriptions>>

\* What a step of one part leaves alone
otherVars == <<scriptVars, docVars>>

notScript == <<ingestVars, docVars>>

notDoc == <<ingestVars, scriptVars>>

vars == <<ingestVars, scriptVars, docVars>>

(***************************************************************************)
(* Bounds of the model and constants of the program.                       *)
(***************************************************************************)
\* Longest input, in segments (a segment is one block, or one block repeated)
MaxSegs == 3

\* Calls of parse_and_save_to_db on the same file, one after the other
MaxRuns == 2

\* Lines of a documentation file
MaxDocLines == 3

\* Executions of the setup script, and chunks a download delivers
MaxExecs == 2

MaxChunks == 2

\* initial_setup.py:21-28: the entries of urls
NumBasins == 6

\* ships.py:112  "if len(rows) >= 100"
BatchSize == 100

(***************************************************************************)
(* Python strings.                                                         *)
(***************************************************************************)
\* s[i : i + 1] for a 1-based i: the character at i, '' outside the string
At(s, i) == IF i >= 1 /\ i <= Len(s) THEN SubSeq(s, i, i) ELSE ""

\* str.isdigit on one ASCII character
isdigit(c) == c \in {"0", "1", "2", "3", "4", "5", "6", "7", "8", "9"}

DigitVal(c) ==
    CASE c = "0" -> 0 [] c = "1" -> 1 [] c = "2" -> 2 [] c = "3" -> 3 [] c = "4" -> 4
      [] c = "5" -> 5 [] c = "6" -> 6 [] c = "7" -> 7 [] c = "8" -> 8 [] c = "9" -> 9

isspace(c) == c \in {" ", "\n"}

\* all(c.isdigit() for c in s)     (true of the empty string)
AllDigits(s) == \A i \in 1..Len(s) : isdigit(At(s, i))

\* s[k:] for k >= 0 (0-based, as in Python)
SliceFrom(s, k) == IF k >= Len(s) THEN "" ELSE SubSeq(s, k + 1, Len(s))

\* s[-k:] for k > 0
SliceLast(s, k) == IF k >= Len(s) THEN s ELSE SubSeq(s, Len(s) - k + 1, Len(s))

RECURSIVE lstrip(_)
lstrip(s) ==
    IF s = "" THEN ""
    ELSE IF isspace(Head(s)) THEN lstrip(Tail(s)) ELSE s

RECURSIVE rstrip(_)
rstrip(s) ==
    IF s = "" THEN ""
    ELSE IF isspace(At(s, Len(s))) THEN rstrip(SubSeq(s, 1, Len(s) - 1)) ELSE s

\* str.strip()
strip(s) == rstrip(lstrip(s))

\* str.split(): the maximal runs of non-blank characters, in order
RECURSIVE SplitFrom(_, _, _)
SplitFrom(s, i, cur) ==
    IF i > Len(s)
    THEN IF cur = "" THEN << >> ELSE <<cur>>
    ELSE IF isspace(At(s, i))
         THEN IF cur = "" THEN SplitFrom(s, i + 1, "")
              ELSE <<cur>> \o SplitFrom(s, i + 1, "")
         ELSE SplitFrom(s, i + 1, cur \o At(s, i))

split(s) == SplitFrom(s, 1, "")

\* The decimal digits of a natural number, without padding
RECURSIVE Decimal(_)
Decimal(n) ==
    IF n < 10 THEN At("0123456789", n + 1)
    ELSE Decimal(n \div 10) \o At("0123456789", (n % 10) + 1)

\* "%02d"
Pad2(n) == IF n < 10 THEN "0" \o Decimal(n) ELSE Decimal(n)

\* int() of a string of digits
RECURSIVE ToNat(_)
ToNat(s) ==
    IF s = "" THEN 0
    ELSE 10 * ToNat(SubSeq(s, 1, Len(s) - 1)) + DigitVal(At(s, Len(s)))

(***************************************************************************)
(* datetime.strptime(s, '%Y%m%d%H') and strftime('%Y-%m-%d %H:%M:%S').     *)
(* strptime matches the regular expression                                 *)
(*   (\d\d\d\d)(1[0-2]|0[1-9]|[1-9])(3[01]|[12]\d|0[1-9]|[1-9]| [1-9])     *)
(*   (2[0-3]|[0-1]\d|\d)                                                   *)
(* at the start of s, alternatives tried in order with backtracking, and   *)
(* raises ValueError when nothing matches, when text is left over or when  *)
(* the fields are no calendar date.                                        *)
(***************************************************************************)
InRange(c, lo, hi) == isdigit(c) /\ DigitVal(c) >= lo /\ DigitVal(c) <= hi

\* Length matched at position p by alternative a of %m, 0 when it does not match
AltMonth(s, p, a) ==
    CASE a = 1 -> IF At(s, p) = "1" /\ InRange(At(s, p + 1), 0, 2) THEN 2 ELSE 0
      [] a = 2 -> IF At(s, p) = "0" /\ InRange(At(s, p + 1), 1, 9) THEN 2 ELSE 0
      [] OTHER -> IF InRange(At(s, p), 1, 9) THEN 1 ELSE 0

\* ... of %d
AltDay(s, p, a) ==
    CASE a = 1 -> IF At(s, p) = "3" /\ InRange(At(s, p + 1), 0, 1) THEN 2 ELSE 0
      [] a = 2 -> IF InRange(At(s, p), 1, 2) /\ isdigit(At(s, p + 1)) THEN 2 ELSE 0
      [] a = 3 -> IF At(s, p) = "0" /\ InRange(At(s, p + 1), 1, 9) THEN 2 ELSE 0
      [] a = 4 -> IF InRange(At(s, p), 1, 9) THEN 1 ELSE 0
      [] OTHER -> IF At(s, p) = " " /\ InRange(At(s, p + 1), 1, 9) THEN 2 ELSE 0

\* ... of %H
AltHour(s, p, a) ==
    CASE a = 1 -> IF At(s, p) = "2" /\ InRange(At(s, p + 1), 0, 3) THEN 2 ELSE 0
      [] a = 2 -> IF InRange(At(s, p), 0, 1) /\ isdigit(At(s, p + 1)) THEN 2 ELSE 0
      [] OTHER -> IF isdigit(At(s, p)) THEN 1 ELSE 0

\* The ways the regular expression matches a prefix of s: <<a, b, c>> are the
\* alternatives taken for %m, %d and %H
Matches(s) ==
    IF ~(Len(s) >= 4 /\ AllDigits(SubSeq(s, 1, 4))) THEN {}
    ELSE LET Hours(a, b, p)  == {<<a, b, c>> : c \in {c \in 1..3 : AltHour(s, p, c) > 0}}
             Days(a, p)      == UNION {Hours(a, b, p + AltDay(s, p, b)) :
                                          b \in {b \in 1..5 : AltDay(s, p, b) > 0}}
         IN  UNION {Days(a, 5 + AltMonth(s, 5, a)) : a \in {a \in 1..3 : AltMonth(s, 5, a) > 0}}

\* The match a backtracking matcher finds: the first in the order of the alternatives
FirstMatch(ms) ==
    CHOOSE t \in ms :
        \A u \in ms : 100 * t[1] + 10 * t[2] + t[3] <= 100 * u[1] + 10 * u[2] + u[3]

IsLeap(y) == y % 4 = 0 /\ (y % 100 # 0 \/ y % 400 = 0)

DaysInMonth(y, m) ==
    IF m = 2 THEN (IF IsLeap(y) THEN 29 ELSE 28)
    ELSE IF m \in {4, 6, 9, 11} THEN 30 ELSE 31

BadTime == [ok |-> FALSE, Y |-> 0, m |-> 0, d |-> 0, H |-> 0]

\* strptime(s, '%Y%m%d%H'): a datetime, or BadTime for ValueError
strptime(s) ==
    LET ms == Matches(s)
    IN  IF ms = {} THEN BadTime
        ELSE LET t  == FirstMatch(ms)
                 lm == AltMonth(s, 5, t[1])
                 ld == AltDay(s, 5 + lm, t[2])
                 lh == AltHour(s, 5 + lm + ld, t[3])
                 Y  == ToNat(SubSeq(s, 1, 4))
                 m  == ToNat(SubSeq(s, 5, 4 + lm))
                 d  == ToNat(strip(SubSeq(s, 5 + lm, 4 + lm + ld)))
                 H  == ToNat(SubSeq(s, 5 + lm + ld, 4 + lm + ld + lh))
             IN  IF 4 + lm + ld + lh # Len(s) THEN BadTime      \* unconverted data remains
                 ELSE IF Y < 1 \/ d > DaysInMonth(Y, m) THEN BadTime
                 ELSE [ok |-> TRUE, Y |-> Y, m |-> m, d |-> d, H |-> H]

\* strftime('%Y-%m-%d %H:%M:%S'); glibc's %Y does not pad the year
strftime(t) ==
    Decimal(t.Y) \o "-" \o Pad2(t.m) \o "-" \o Pad2(t.d) \o " " \o Pad2(t.H) \o ":00:00"

(***************************************************************************)
(* The raw text file.  A file is a sequence of segments, a segment being   *)
(* one block of lines or BatchSize copies of the plain block.  A header    *)
(* line holds name, yymmdd, hour, vmax, ATCF identifier, HEAD; a parameter *)
(* line the values at t=-12, t=-6 and t=0 and the parameter's name.        *)
(***************************************************************************)
BlockKinds ==
    {"plain", "early", "other", "badtime", "extra", "short", "open", "orphan",
     "blank", "number", "thin", "lastn", "swapped"}

\* The lines of one block of each kind
BlockLines(k) ==
    CASE k = "plain"   -> <<" ALBE 820625 00   20 AL011982 HEAD",
                            "   10   11   12 SHRD",
                            "    0    0    0 LAST">>
      [] k = "early"   -> <<" ALBE 820624 18   20 AL011982 HEAD",
                            "    0    6   12 TIME",
                            "   10   11 9999 SHRD ",
                            "    0    0    0 LAST">>
      [] k = "other"   -> <<" BETA 820913  6   35 EP022005 HEAD",
                            "    0    6   12 TIME",
                            "   10   11  -45 SHRD 5",
                            "    0    0    0 LAST">>
      [] k = "badtime" -> <<" ALBE 820230 00   20 AL011982 HEAD",
                            "   10   11   12 SHRD",
                            "    0    0    0 LAST">>
      [] k = "extra"   -> <<" ALBE 820625 06   20 AL011982 HEAD",
                            "   10   11   12 SHRD",
                            "   60   65 9999 RHLO",
                            "    0    0    0 LAST">>
      [] k = "swapped" -> <<" ALBE 820625 18   20 AL011982 HEAD",
                            "   60   65   70 RHLO",
                            "   10   11   15 SHRD",
                            "    0    0    0 LAST">>
      [] k = "short"   -> <<" ALBE 820625 12   20 AL011982 HEAD",
                            "    0    0    0 LAST">>
      [] k = "open"    -> <<" BETA 050913 12   35 EP022005 HEAD",
                            "   10   11   12 SHRD">>
      [] k = "orphan"  -> <<"   10   11   12 SHRD",
                            "    0    0    0 LAST">>
      [] k = "blank"   -> <<"  ">>
      [] k = "number"  -> <<" 123">>
      [] k = "thin"    -> <<" BETA 050913 00   35 EP022005 HEAD",
                            " 12 SHRD",
                            "    0    0    0 LAST">>
      [] OTHER         -> <<" BETA 050913 00   35 EP022005 HEAD",
                            "   10   11   12 SHRD",
                            "    0    0 LAST 5">>

\* Only the plain block is repeated
Segments ==
    [kind : BlockKinds, n : {1}] \cup [kind : {"plain"}, n : {BatchSize}]

Inputs == UNION {[1..len -> Segments] : len \in 0..MaxSegs}

SegLines(seg) == seg.n * Len(BlockLines(seg.kind))

RECURSIVE NumLines(_)
NumLines(inp) == IF inp = << >> THEN 0 ELSE SegLines(Head(inp)) + NumLines(Tail(inp))

\* Line i (from 1) of the file, as written
RECURSIVE FileLine(_, _)
FileLine(inp, i) ==
    LET seg == Head(inp)
        bl  == BlockLines(seg.kind)
    IN  IF i <= SegLines(seg) THEN bl[((i - 1) % Len(bl)) + 1]
        ELSE FileLine(Tail(inp), i - SegLines(seg))

\* f.readline().strip() for the i-th call: '' at and after the end of the file
readline(inp, i) == IF i > NumLines(inp) THEN "" ELSE strip(FileLine(inp, i))

(***************************************************************************)
(* Row names and the schema (Ships.get_diag_names, ships.py:49-79).        *)
(***************************************************************************)
\* What an operator yields where the Python raises IndexError (no token holds a blank)
IndexError == "Index Error"

\* getname = lambda fields: fields[-2] if all(c.isdigit() for c in fields[-1]) else fields[-1]
\* (fs, the fields, is never empty where it is called)
getname(fs) ==
    IF AllDigits(fs[Len(fs)])
    THEN IF Len(fs) >= 2 THEN fs[Len(fs) - 1] ELSE IndexError
    ELSE fs[Len(fs)]

\* The loop of get_diag_names from line i on, names being those collected so far
RECURSIVE DiagNamesFrom(_, _, _)
DiagNamesFrom(inp, i, names) ==
    LET ln == readline(inp, i)
        fs == split(ln)
    IN  IF ln = "" \/ fs[Len(fs)] = "LAST" THEN [ok |-> TRUE, names |-> names]
        ELSE IF getname(fs) = IndexError THEN [ok |-> FALSE, names |-> names]
        ELSE DiagNamesFrom(inp, i + 1,
                 IF getname(fs) # "HEAD" THEN Append(names, getname(fs)) ELSE names)

get_diag_names(inp) == DiagNamesFrom(inp, 1, << >>)

\* blacklist = ['TIME']
blacklist == {"TIME"}

\* [name for name in names if name not in blacklist]
RECURSIVE NotBlacklisted(_)
NotBlacklisted(names) ==
    IF names = << >> THEN << >>
    ELSE IF Head(names) \in blacklist THEN NotBlacklisted(Tail(names))
         ELSE <<Head(names)>> \o NotBlacklisted(Tail(names))

\* 'ATCF_ID CHAR(8), TIME DATETIME, ' + ','.join(f'{name} INT' for name in colnames)
TableCols(colnames) == <<"ATCF_ID", "TIME">> \o colnames

\* Whether sqlite accepts CREATE TABLE with these columns: at least one parameter
\* column (the statement ends ", )" without), names that are identifiers, no name twice
CreateOk(cols) ==
    /\ Len(cols) > 2
    /\ \A i \in 1..Len(cols) : ~isdigit(Head(cols[i]))
    /\ \A i, j \in 1..Len(cols) : cols[i] = cols[j] => i = j

NoTable == [exists |-> FALSE, cols |-> << >>, rows |-> << >>]

\* The statement left out: the table stays as it is
DropTableSkipped(t) == t

\* ships.py:72: c.execute('DROP TABLE IF EXISTS diagnostics')
DropTable(t) == NoTable

\* ships.py:78: CREATE TABLE is refused when the table exists
CanCreate(t, cols) == ~t.exists /\ CreateOk(cols)

(***************************************************************************)
(* The table.  A stored value is [text |-> s] or [int |-> n]; sqlite       *)
(* converts a text that is an integer literal when the column's affinity   *)
(* is INTEGER (the INT columns) or NUMERIC (TIME DATETIME).                *)
(***************************************************************************)
IsIntLiteral(s) ==
    \/ s # "" /\ AllDigits(s)
    \/ Len(s) >= 2 /\ Head(s) \in {"-", "+"} /\ AllDigits(Tail(s))

IntOf(s) ==
    IF Head(s) = "-" THEN 0 - ToNat(Tail(s))
    ELSE IF Head(s) = "+" THEN ToNat(Tail(s)) ELSE ToNat(s)

Affinity(s) == IF IsIntLiteral(s) THEN [int |-> IntOf(s)] ELSE [text |-> s]

\* The row as the table holds it: ATCF_ID CHAR(8) keeps text
Stored(r) == [i \in 1..Len(r) |-> IF i = 1 THEN [text |-> r[i]] ELSE Affinity(r[i])]

StoredAll(rs) == [k \in 1..Len(rs) |-> Stored(rs[k])]

\* The first row that has not len(rows[0]) values, 0 when there is none
BadRowAt(rs) ==
    IF \A k \in 1..Len(rs) : Len(rs[k]) = Len(rs[1]) THEN 0
    ELSE CHOOSE k \in 1..Len(rs) :
            /\ Len(rs[k]) # Len(rs[1])
            /\ \A j \in 1..(k - 1) : Len(rs[j]) = Len(rs[1])

\* c.executemany('INSERT INTO t VALUES (?,...,?)', rows) with len(rows[0]) marks:
\* the statement is refused when the table has another number of columns (nothing
\* is inserted), and binding fails at the first row of another length (the rows
\* before it are inserted, uncommitted)
executemany(t, rs) ==
    IF Len(rs[1]) # Len(t.cols) THEN [ok |-> FALSE, inserted |-> << >>]
    ELSE IF BadRowAt(rs) # 0
         THEN [ok |-> FALSE, inserted |-> StoredAll(SubSeq(rs, 1, BadRowAt(rs) - 1))]
         ELSE [ok |-> TRUE, inserted |-> StoredAll(rs)]

(***************************************************************************)
(* Ships.get_storm_obs (ships.py:127-142).                                 *)
(***************************************************************************)
\* The characters of the model in ASCII order: sqlite compares text bytewise
Ascii == " +-0123456789:ABCDEFGHIJKLMNOPQRSTUVWXYZ_"

Ord(c) == CHOOSE i \in 1..Len(Ascii) : At(Ascii, i) = c

RECURSIVE TextLess(_, _)
TextLess(a, b) ==
    IF b = "" THEN FALSE
    ELSE IF a = "" THEN TRUE
    ELSE IF Head(a) = Head(b) THEN TextLess(Tail(a), Tail(b))
    ELSE Ord(Head(a)) < Ord(Head(b))

IsInt(v) == "int" \in DOMAIN v

\* sqlite's order of stored values: integers before text
ValueLess(a, b) ==
    IF IsInt(a) THEN (IF IsInt(b) THEN a.int < b.int ELSE TRUE)
    ELSE (IF IsInt(b) THEN FALSE ELSE TextLess(a.text, b.text))

\* WHERE ATCF_ID="<q>"
Where(rs, q) ==
    LET Test(r) == r[1] = [text |-> q]
    IN  SelectSeq(rs, Test)

\* The values of a set in sqlite's order
RECURSIVE Ascending(_)
Ascending(S) ==
    IF S = {} THEN << >>
    ELSE LET least == CHOOSE x \in S : \A y \in S : ~ValueLess(y, x)
         IN  <<least>> \o Ascending(S \ {least})

RECURSIVE RowsInOrder(_, _)
RowsInOrder(rs, times) ==
    IF times = << >> THEN << >>
    ELSE LET Test(r) == r[2] = Head(times)
         IN  SelectSeq(rs, Test) \o RowsInOrder(rs, Tail(times))

\* ORDER BY left out
Unordered(rs) == rs

\* ORDER BY TIME: by ascending TIME, rows of equal TIME in the order of insertion
OrderByTime(rs) == RowsInOrder(rs, Ascending({rs[k][2] : k \in 1..Len(rs)}))

\* list(zip(*rows)): one tuple per column, none when there is no row
ZipStar(rs) ==
    IF rs = << >> THEN << >>
    ELSE [i \in 1..Len(rs[1]) |-> [k \in 1..Len(rs) |-> rs[k][i]]]

Min(a, b) == IF a < b THEN a ELSE b

\* {colname: values for colname, values in zip(colnames, values)}
DictZip(colnames, values) ==
    [c \in {colnames[i] : i \in 1..Min(Len(colnames), Len(values))} |->
        values[CHOOSE i \in 1..Min(Len(colnames), Len(values)) :
                  /\ colnames[i] = c
                  /\ \A j \in (i + 1)..Min(Len(colnames), Len(values)) : colnames[j] # c]]

NoData == [status |-> "none", map |-> << >>]

\* As get_storm does: an exception when no row matches
get_storm_obs_strict(t, seen, q) ==
    IF ~t.exists \/ Where(seen, q) = << >> THEN [status |-> "error", map |-> << >>]
    ELSE [status |-> "ok",
          map |-> DictZip(t.cols, ZipStar(OrderByTime(Where(seen, q))))]

\* The dict get_storm_obs returns; "error" for sqlite's "no such table".  The
\* connection that runs the SELECT sees its own uncommitted rows (seen).
get_storm_obs(t, seen, q) ==
    IF ~t.exists THEN [status |-> "error", map |-> << >>]
    ELSE [status |-> "ok",
          map |-> DictZip(t.cols, ZipStar(OrderByTime(Where(seen, q))))]

\* The storm identifiers asked for: the two of the file and one that is in no file
QueryArgs == {"AL011982", "EP022005", "WP031990"}

(***************************************************************************)
(* The state machine.                                                      *)
(*   input    the raw text file                                            *)
(*   pc       idle | parsing | done | failed  (parse_and_save_to_db)       *)
(*   err      the exception that ended the run, "none" otherwise           *)
(*   linenum, line, fields, name, row, rows                                *)
(*            the locals of parse_and_save_to_db                           *)
(*   table    the committed diagnostics table                              *)
(*   tx       rows inserted in the open transaction, not committed         *)
(*   ATCF_ID, data                                                         *)
(*            the argument of the call of get_storm_obs after the run (""  *)
(*            before it) and what it returned                              *)
(***************************************************************************)
\* load_documentation has not been called
NoDoc ==
    /\ doclines = << >>
    /\ docpos = 0
    /\ parameter_descriptions = << >>

\* No setup script is running
NoScript ==
    /\ at = "idle"
    /\ basin = 0
    /\ retrieved = 0
    /\ rawfile = [exists |-> TRUE, size |-> 1]
    /\ docfile = TRUE
    /\ exc = "none"
    /\ execs = 0

\* parse_and_save_to_db is not running and has not run
NoIngestion ==
    /\ input = << >>
    /\ pc = "idle"
    /\ err = "none"
    /\ linenum = 0
    /\ line = ""
    /\ fields = << >>
    /\ name = ""
    /\ row = << >>
    /\ rows = << >>
    /\ table = NoTable
    /\ tx = << >>
    /\ ATCF_ID = ""
    /\ data = NoData
    /\ runs = 0
    /\ first = NoTable

Init ==
    /\ input \in Inputs
    /\ pc = "idle"
    /\ err = "none"
    /\ linenum = 0
    /\ line = ""
    /\ fields = << >>
    /\ name = ""
    /\ row = << >>
    /\ rows = << >>
    /\ table = NoTable
    /\ tx = << >>
    /\ ATCF_ID = ""
    /\ data = NoData
    /\ runs = 0
    /\ first = NoTable
    /\ NoScript
    /\ NoDoc

\* ships.py:88 and 123: line = f.readline().strip(), and ships.py:92-93 of the
\* iteration that follows: fields = line.split(); name = getname(fields)
ReadLine(n) ==
    /\ line' = readline(input, n)
    /\ fields' = IF line' = "" THEN fields ELSE split(line')
    /\ name' = IF line' = "" THEN name ELSE getname(fields')

\* ships.py:70-88: DROP TABLE IF EXISTS, get_diag_names, CREATE TABLE, commit
StartOk ==
    /\ pc \in {"idle", "done"}
    /\ runs < MaxRuns
    /\ LET diag == get_diag_names(input)
           cols == TableCols(NotBlacklisted(diag.names))
       IN  /\ diag.ok
           /\ CanCreate(DropTable(table), cols)
           /\ table' = [exists |-> TRUE, cols |-> cols, rows |-> << >>]
    /\ runs' = runs + 1
    /\ tx' = << >>
    /\ pc' = "parsing"
    /\ err' = "none"
    /\ linenum' = 1
    /\ ReadLine(1)
    /\ row' = << >>
    /\ rows' = << >>
    /\ ATCF_ID' = ""
    /\ data' = NoData
    /\ UNCHANGED <<input, first, otherVars>>

\* ... where get_diag_names or CREATE TABLE raises: the table stays dropped
StartFail ==
    /\ pc \in {"idle", "done"}
    /\ runs < MaxRuns
    /\ LET diag == get_diag_names(input)
       IN  /\ ~(diag.ok /\ CanCreate(DropTable(table), TableCols(NotBlacklisted(diag.names))))
           /\ err' = IF diag.ok THEN "OperationalError" ELSE "IndexError"
    /\ table' = DropTable(table)
    /\ runs' = runs + 1
    /\ tx' = << >>
    /\ pc' = "failed"
    /\ linenum' = 0
    /\ line' = ""
    /\ fields' = << >>
    /\ name' = ""
    /\ row' = << >>
    /\ rows' = << >>
    /\ ATCF_ID' = ""
    /\ data' = NoData
    /\ UNCHANGED <<input, first, otherVars>>

\* The line skipped and the run going on
RaiseSkip(e) ==
    /\ err' = e
    /\ linenum' = linenum + 1
    /\ ReadLine(linenum + 1)
    /\ UNCHANGED <<input, pc, row, rows, table, tx, ATCF_ID, data, runs, first, otherVars>>

\* An exception leaves parse_and_save_to_db: nothing more is done
Raise(e) ==
    /\ pc' = "failed"
    /\ err' = e
    /\ UNCHANGED <<input, linenum, line, fields, name, row, rows, table, tx, ATCF_ID, data, runs, first, otherVars>>

\* ships.py:90: the loop ends at an empty line
Finish ==
    /\ pc = "parsing"
    /\ line = ""
    /\ pc' = "done"
    /\ first' = IF runs = 1 THEN table ELSE first
    /\ UNCHANGED <<input, err, linenum, line, fields, name, row, rows, table, tx, ATCF_ID, data, runs, otherVars>>

\* ships.py:93: getname raises on a line that is one number
NameFail ==
    /\ pc = "parsing"
    /\ line # ""
    /\ name = IndexError
    /\ Raise("IndexError")

\* The assertion left out
HeaderOkOff == TRUE

\* ships.py:95-96: if linenum == 1: assert getname(fields) == 'HEAD'
HeaderOk == linenum # 1 \/ name = "HEAD"

\* ... where the assertion fails
HeaderFail ==
    /\ pc = "parsing"
    /\ line # ""
    /\ name # IndexError
    /\ ~HeaderOk
    /\ Raise("AssertionError")

\* The year taken from the date field, in the 1900s
yyyymmddhhOfDate(fs) == "19" \o fs[2] \o fs[3]

\* curID[-4:]+yymmdd[2:]+utchour of fields[-2], fields[1], fields[2]
yyyymmddhh(fs) == SliceLast(fs[Len(fs) - 1], 4) \o SliceFrom(fs[2], 2) \o fs[3]

\* ships.py:98-109
HeadLine ==
    /\ pc = "parsing"
    /\ line # ""
    /\ HeaderOk
    /\ name = "HEAD"
    /\ Len(fields) >= 3
    /\ LET curtime == strptime(yyyymmddhh(fields))
       IN  /\ curtime.ok
           /\ row' = <<fields[Len(fields) - 1], strftime(curtime)>>
    /\ rows' = IF row # << >> THEN Append(rows, row) ELSE rows
    /\ linenum' = linenum + 1
    /\ ReadLine(linenum + 1)
    /\ UNCHANGED <<input, pc, err, table, tx, ATCF_ID, data, runs, first, otherVars>>

\* ... where a field is missing (IndexError) or strptime raises ValueError
HeadFail ==
    /\ pc = "parsing"
    /\ line # ""
    /\ HeaderOk
    /\ name = "HEAD"
    /\ \/ Len(fields) < 3 /\ Raise("IndexError")
       \/ Len(fields) >= 3 /\ ~strptime(yyyymmddhh(fields)).ok /\ Raise("ValueError")

IsLastLine ==
    /\ pc = "parsing"
    /\ line # ""
    /\ HeaderOk
    /\ name = "LAST"

\* The row put into the batch at the LAST line of its block
LastLineEmits ==
    /\ IsLastLine
    /\ Len(rows) < BatchSize
    /\ rows' = Append(rows, row)
    /\ row' = << >>
    /\ linenum' = linenum + 1
    /\ ReadLine(linenum + 1)
    /\ UNCHANGED <<input, pc, err, table, tx, ATCF_ID, data, runs, first, otherVars>>

\* ships.py:110-112: fewer than 100 rows collected
LastLine ==
    /\ IsLastLine
    /\ Len(rows) < BatchSize
    /\ linenum' = linenum + 1
    /\ ReadLine(linenum + 1)
    /\ UNCHANGED <<input, pc, err, row, rows, table, tx, ATCF_ID, data, runs, first, otherVars>>

\* ships.py:112-115: executemany, commit, rows.clear()
LastLineFlush ==
    /\ IsLastLine
    /\ Len(rows) >= BatchSize
    /\ LET done == executemany(table, rows)
       IN  /\ done.ok
           /\ table' = [table EXCEPT !.rows = table.rows \o tx \o done.inserted]
    /\ tx' = << >>
    /\ rows' = << >>
    /\ linenum' = linenum + 1
    /\ ReadLine(linenum + 1)
    /\ UNCHANGED <<input, pc, err, row, ATCF_ID, data, runs, first, otherVars>>

\* ... where executemany raises: what it inserted stays uncommitted
LastLineFlushFail ==
    /\ IsLastLine
    /\ Len(rows) >= BatchSize
    /\ LET done == executemany(table, rows)
       IN  /\ ~done.ok
           /\ tx' = tx \o done.inserted
    /\ pc' = "failed"
    /\ err' = IF Len(rows[1]) # Len(table.cols) THEN "OperationalError" ELSE "ProgrammingError"
    /\ UNCHANGED <<input, linenum, line, fields, name, row, rows, table, ATCF_ID, data, runs, first, otherVars>>

IsParamLine ==
    /\ pc = "parsing"
    /\ line # ""
    /\ HeaderOk
    /\ name \notin {IndexError, "HEAD", "LAST"}

\* The value taken from field 1 of the line
ParamLineField1 ==
    /\ IsParamLine
    /\ Len(fields) >= 3
    /\ row' = IF name \notin blacklist THEN Append(row, fields[2]) ELSE row
    /\ linenum' = linenum + 1
    /\ ReadLine(linenum + 1)
    /\ UNCHANGED <<input, pc, err, rows, table, tx, ATCF_ID, data, runs, first, otherVars>>

\* ships.py:116-120
ParamLine ==
    /\ IsParamLine
    /\ Len(fields) >= 3
    /\ row' = IF name \notin blacklist THEN Append(row, fields[3]) ELSE row
    /\ linenum' = linenum + 1
    /\ ReadLine(linenum + 1)
    /\ UNCHANGED <<input, pc, err, rows, table, tx, ATCF_ID, data, runs, first, otherVars>>

\* ... where the line has no field 2
ParamFail ==
    /\ IsParamLine
    /\ Len(fields) < 3
    /\ Raise("IndexError")

\* ships.py:127-142: one call after (or before) a run
Query ==
    /\ pc \in {"idle", "done", "failed"}
    /\ data = NoData
    /\ \E q \in QueryArgs :
          /\ ATCF_ID' = q
          /\ data' = get_storm_obs(table, table.rows \o tx, q)
    /\ UNCHANGED <<input, pc, err, linenum, line, fields, name, row, rows, table, tx, runs, first, otherVars>>

Next ==
    \/ StartOk
    \/ StartFail
    \/ Finish
    \/ NameFail
    \/ HeaderFail
    \/ HeadLine
    \/ HeadFail
    \/ LastLine
    \/ LastLineFlush
    \/ LastLineFlushFail
    \/ ParamLine
    \/ ParamFail
    \/ Query

Spec == Init /\ [][Next]_vars

(***************************************************************************)
(* The setup script (initial_setup.py:29-58): download of the raw text     *)
(* file, the call of parse_and_save_to_db, installation of the             *)
(* documentation file.  The text that is downloaded is not modelled: the   *)
(* raw file is whether it exists and how many chunks were written to it,   *)
(* and parse_and_save_to_db on a file that exists returns or raises.       *)
(*   at         where the script stands: check (line 32), urlopen (36),    *)
(*              read (42), parse (55), copy (58), exit, crash (uncaught    *)
(*              exception); idle when no script runs                       *)
(*   basin      the entry of urls being downloaded (1..6)                  *)
(*   retrieved  chunks read from that entry                                *)
(*   rawfile    data/ships.txt                                             *)
(*   docfile    whether data/ships_predictor_file_2020.txt exists          *)
(*   exc        the last exception raised in the script                    *)
(*   execs      executions of the script so far                            *)
(***************************************************************************)
NoFile == [exists |-> FALSE, size |-> 0]

\* initial_setup.py:51: except ConnectionError catches that class and its subclasses
IsConnectionError(e) == e \in {"ConnectionError", "ConnectionResetError"}

\* urlopen: an OSError of the request is raised as URLError (an OSError, not a
\* ConnectionError); one while the response is awaited is raised as it is
OpenErrors == {"URLError", "ConnectionResetError"}

\* rf.read and lf.write: connection reset, ETIMEDOUT of the socket, ENOSPC of the disk
ReadErrors == {"ConnectionResetError", "TimeoutError", "OSError"}

SetupInit ==
    /\ at = "check"
    /\ basin = 0
    /\ retrieved = 0
    /\ rawfile \in {NoFile, [exists |-> TRUE, size |-> 1]}
    /\ docfile \in BOOLEAN
    /\ exc = "none"
    /\ execs = 1
    /\ NoIngestion
    /\ NoDoc

\* initial_setup.py:32: the raw file exists, nothing is downloaded
FileExists ==
    /\ at = "check"
    /\ rawfile.exists
    /\ at' = "parse"
    /\ exc' = "none"
    /\ UNCHANGED <<basin, retrieved, rawfile, docfile, execs, notScript>>

\* initial_setup.py:32-35: open(filename, 'a') creates the file
OpenFile ==
    /\ at = "check"
    /\ ~rawfile.exists
    /\ rawfile' = [exists |-> TRUE, size |-> 0]
    /\ basin' = 1
    /\ at' = "urlopen"
    /\ exc' = "none"
    /\ UNCHANGED <<retrieved, docfile, execs, notScript>>

\* initial_setup.py:51-52 for an exception e raised inside the try: a
\* ConnectionError is caught, the file removed and the script goes on to line 55;
\* any other leaves the script, the file closed and kept
DownloadFails(e) ==
    /\ exc' = e
    /\ rawfile' = IF IsConnectionError(e) THEN NoFile ELSE rawfile
    /\ at' = IF IsConnectionError(e) THEN "parse" ELSE "crash"
    /\ UNCHANGED <<basin, retrieved, docfile, execs, notScript>>

\* initial_setup.py:36-40
UrlOpen ==
    /\ at = "urlopen"
    /\ retrieved' = 0
    /\ at' = "read"
    /\ UNCHANGED <<basin, rawfile, docfile, exc, execs, notScript>>

UrlOpenFail ==
    /\ at = "urlopen"
    /\ \E e \in OpenErrors : DownloadFails(e)

\* initial_setup.py:42-49: a chunk is read and written
ReadChunk ==
    /\ at = "read"
    /\ retrieved < MaxChunks
    /\ retrieved' = retrieved + 1
    /\ rawfile' = [rawfile EXCEPT !.size = @ + 1]
    /\ UNCHANGED <<at, basin, docfile, exc, execs, notScript>>

\* initial_setup.py:42-46: the empty chunk ends the entry; after the last the file
\* is closed
ReadEnd ==
    /\ at = "read"
    /\ basin' = IF basin < NumBasins THEN basin + 1 ELSE basin
    /\ at' = IF basin < NumBasins THEN "urlopen" ELSE "parse"
    /\ UNCHANGED <<retrieved, rawfile, docfile, exc, execs, notScript>>

ReadFail ==
    /\ at = "read"
    /\ \E e \in ReadErrors : DownloadFails(e)

\* initial_setup.py:55, where ships.py:51 raises: there is no raw file
ParseMissing ==
    /\ at = "parse"
    /\ ~rawfile.exists
    /\ exc' = "FileNotFoundError"
    /\ at' = "crash"
    /\ UNCHANGED <<basin, retrieved, rawfile, docfile, execs, notScript>>

\* initial_setup.py:55: parse_and_save_to_db returns
ParseReturns ==
    /\ at = "parse"
    /\ rawfile.exists
    /\ rawfile.size > 0
    /\ at' = "copy"
    /\ UNCHANGED <<basin, retrieved, rawfile, docfile, exc, execs, notScript>>

\* ... or raises (as it does for an empty file: CREATE TABLE without a parameter)
ParseRaises ==
    /\ at = "parse"
    /\ rawfile.exists
    /\ exc' = "ParseError"
    /\ at' = "crash"
    /\ UNCHANGED <<basin, retrieved, rawfile, docfile, execs, notScript>>

\* initial_setup.py:58: copy2 of the documentation file into the data directory
InstallDoc ==
    /\ at = "copy"
    /\ docfile' = TRUE
    /\ at' = "exit"
    /\ UNCHANGED <<basin, retrieved, rawfile, exc, execs, notScript>>

\* The script is run once more; the files are as the last execution left them
RunAgain ==
    /\ at \in {"exit", "crash"}
    /\ execs < MaxExecs
    /\ execs' = execs + 1
    /\ at' = "check"
    /\ basin' = 0
    /\ retrieved' = 0
    /\ UNCHANGED <<rawfile, docfile, exc, notScript>>

SetupNext ==
    \/ FileExists
    \/ OpenFile
    \/ UrlOpen
    \/ UrlOpenFail
    \/ ReadChunk
    \/ ReadEnd
    \/ ReadFail
    \/ ParseMissing
    \/ ParseReturns
    \/ ParseRaises
    \/ InstallDoc
    \/ RunAgain

SetupSpec == SetupInit /\ [][SetupNext]_vars

(***************************************************************************)
(* Ships.load_documentation (ships.py:35-47).                              *)
(*   doclines   the lines of the documentation file, as f.readlines()      *)
(*              yields them (each ends with a newline)                      *)
(*   docpos     lines the loop has gone through                            *)
(*   parameter_descriptions                                                *)
(*              the dict, a function from parameter to description         *)
(***************************************************************************)
\* Lines of a documentation file: plain, a second one of the same code, colons in
\* the description with and without blanks around them, no colon, an empty line
DocLines ==
    {"VMAX: max wind\n", " VMAX :kt \n", "T:a:b\n", "RHLO: x : y\n", "LAST\n", "\n"}

DocFiles == UNION {[1..len -> DocLines] : len \in 0..MaxDocLines}

\* s.split(':'): the pieces between the colons, empty ones included
RECURSIVE SplitColonFrom(_, _, _)
SplitColonFrom(s, i, cur) ==
    IF i > Len(s) THEN <<cur>>
    ELSE IF At(s, i) = ":" THEN <<cur>> \o SplitColonFrom(s, i + 1, "")
    ELSE SplitColonFrom(s, i + 1, cur \o At(s, i))

SplitColon(s) == SplitColonFrom(s, 1, "")

\* [p.strip() for p in parts]
StripAll(ps) == [i \in 1..Len(ps) |-> strip(ps[i])]

\* ':'.join(ps)
RECURSIVE JoinColon(_)
JoinColon(ps) ==
    IF ps = << >> THEN ""
    ELSE IF Len(ps) = 1 THEN ps[1]
    ELSE ps[1] \o ":" \o JoinColon(Tail(ps))

\* dict[k] = v
SetItem(d, k, v) == [x \in DOMAIN d \cup {k} |-> IF x = k THEN v ELSE d[x]]

\* ships.py:40-41
DocInit ==
    /\ doclines \in DocFiles
    /\ docpos = 0
    /\ parameter_descriptions = << >>
    /\ NoIngestion
    /\ NoScript

\* ships.py:42-46: one turn of the loop
LoadLine ==
    /\ docpos < Len(doclines)
    /\ LET parts == StripAll(SplitColon(doclines[docpos + 1]))
           param == parts[1]
           descr == IF Len(parts) > 1 THEN JoinColon(Tail(parts)) ELSE ""
       IN  parameter_descriptions' = SetItem(parameter_descriptions, param, descr)
    /\ docpos' = docpos + 1
    /\ UNCHANGED <<doclines, notDoc>>

DocNext == LoadLine

DocSpec == DocInit /\ [][DocNext]_vars

(***************************************************************************)
(* What the claims say of an input, read off the text of the file.         *)
(***************************************************************************)
\* The line ends with the word w
EndsWith(l, w) == SliceLast(rstrip(l), Len(w)) = w

\* The number of HEAD lines of the file
HeadLinesOf(k) == Cardinality({i \in 1..Len(BlockLines(k)) : EndsWith(BlockLines(k)[i], " HEAD")})

RECURSIVE HeadCount(_)
HeadCount(inp) ==
    IF inp = << >> THEN 0
    ELSE Head(inp).n * HeadLinesOf(Head(inp).kind) + HeadCount(Tail(inp))

\* The blocks that are well formed and hold the parameters of each other: a HEAD
\* line with a date that exists, TIME and SHRD lines of three values, a LAST line
WellFormedKinds == {"plain", "early", "other"}

\* N >= 1 well-formed blocks
WellFormed(inp) == inp # << >> /\ \A i \in 1..Len(inp) : inp[i].kind \in WellFormedKinds

\* The first line of the file resolves to row name HEAD
FirstLineIsHead(inp) ==
    /\ NumLines(inp) >= 1
    /\ split(FileLine(inp, 1)) # << >>
    /\ getname(split(FileLine(inp, 1))) = "HEAD"

(***************************************************************************)
(* The claims.                                                             *)
(***************************************************************************)
\* C1: for an input of N >= 1 well-formed blocks, when parse_and_save_to_db has
\* finished the table holds exactly N rows, one per HEAD line of the input.
C1_OneRowPerHead ==
    (pc = "done" /\ WellFormed(input)) => Len(table.rows) = HeadCount(input)

\* C2: at the end of the input the partial batch is flushed: when the run has
\* finished no finalized row is left in the buffer only.
C2_PartialBatchFlushed == pc = "done" => rows = << >>

\* C3: when the first line of the input does not resolve to HEAD the run fails at
\* line 1 at the latest, before any row is started, buffered or inserted; the line
\* is never skipped.
C3_FirstLineMustBeHead ==
    (pc # "idle" /\ ~FirstLineIsHead(input)) =>
        /\ pc # "done"
        /\ linenum <= 1
        /\ row = << >>
        /\ rows = << >>
        /\ table.rows = << >>
        /\ tx = << >>
        /\ pc = "parsing" => ENABLED (HeaderFail \/ NameFail)

C3_Witness ==
    /\ pc = "failed"
    /\ err = "AssertionError"
    /\ linenum = 1
    /\ ~FirstLineIsHead(input)

\* C4: when the run aborts with a format error (no HEAD line first, or a HEAD line
\* whose timestamp does not parse) no diagnostics table is left in the store.
C4_NoSchemaAfterFormatError ==
    (pc = "failed" /\ err \in {"AssertionError", "ValueError"}) => ~table.exists

\* The number of HEAD lines among the first n lines of the file
RECURSIVE HeadsUpTo(_, _)
HeadsUpTo(inp, n) ==
    IF inp = << >> \/ n <= 0 THEN 0
    ELSE LET seg == Head(inp)
             bl  == BlockLines(seg.kind)
         IN  IF n >= SegLines(seg)
             THEN seg.n * HeadLinesOf(seg.kind) + HeadsUpTo(Tail(inp), n - SegLines(seg))
             ELSE (n \div Len(bl)) * HeadLinesOf(seg.kind)
                  + Cardinality({i \in 1..(n % Len(bl)) : EndsWith(bl[i], " HEAD")})

\* The HEAD line l names a date and an hour that exist: yymmdd in field 1, the hour
\* in field 2, the year in the last four characters of the second-to-last field
StampExists(l) ==
    LET fs == split(l)
        Y  == SliceLast(fs[Len(fs) - 1], 4)
        md == fs[2]
        hh == fs[3]
    IN  /\ Len(Y) = 4 /\ AllDigits(Y) /\ ToNat(Y) >= 1
        /\ Len(md) = 6 /\ AllDigits(md)
        /\ Len(hh) \in {1, 2} /\ AllDigits(hh) /\ ToNat(hh) <= 23
        /\ ToNat(SubSeq(md, 3, 4)) \in 1..12
        /\ ToNat(SubSeq(md, 5, 6)) \in 1..DaysInMonth(ToNat(Y), ToNat(SubSeq(md, 3, 4)))

\* The timestamp the claim C6 gives the row of HEAD line l
ExpectedStamp(l) ==
    LET fs == split(l)
        hh == fs[3]
    IN  SliceLast(fs[Len(fs) - 1], 4) \o "-" \o SubSeq(fs[2], 3, 4) \o "-" \o SubSeq(fs[2], 5, 6)
            \o " " \o (IF Len(hh) = 1 THEN "0" \o hh ELSE hh) \o ":00:00"

\* The batch about to be inserted holds a row that does not fit the table
BatchMisfit == \E k \in 1..Len(rows) : Len(rows[k]) # Len(table.cols)

C5_Step ==
    \* an unparseable HEAD timestamp ends the run where it stands
    /\ (pc = "parsing" /\ EndsWith(line, " HEAD") /\ ~StampExists(line))
          => /\ pc' = "failed"
             /\ err' = "ValueError"
             /\ UNCHANGED <<linenum, row, rows, table, tx>>
    \* so does a failing batch insert, which commits nothing
    /\ (pc = "parsing" /\ EndsWith(line, " LAST") /\ Len(rows) >= BatchSize /\ BatchMisfit)
          => /\ pc' = "failed"
             /\ UNCHANGED <<linenum, row, rows, table>>
    \* after the failure no line is processed and the table is not touched
    /\ pc = "failed" => (pc' = "failed" /\ UNCHANGED <<linenum, line, row, rows, table, tx>>)
    \* committed rows stay as they are while the run goes on
    /\ (pc = "parsing" /\ pc' \in {"parsing", "failed"})
          => SubSeq(table'.rows, 1, Len(table.rows)) = table.rows
    \* no row of the block that failed, or of a later one, is in the table
    /\ (pc' = "failed" /\ HeadsUpTo(input, linenum') >= 1)
          => Len(table'.rows) + Len(tx') < HeadsUpTo(input, linenum')

\* C5: a fatal error (unparseable HEAD timestamp, failing batch insert) in block k
\* aborts the run: no later line is processed, no row of block k or of a later
\* block is persisted, and the batches committed before stay in the table unchanged.
C5_AbortKeepsCommitted == [][C5_Step]_vars

C5_Witness == pc = "failed" /\ err = "ValueError" /\ Len(table.rows) >= BatchSize

StoredRows == table.rows \o tx

Matching == {k \in 1..Len(StoredRows) : StoredRows[k][1] = [text |-> ATCF_ID]}

\* C7: a stored 9999 of a numeric column is returned by get_storm_obs as the absent
\* marker, never as the integer 9999.
C7_SentinelIsAbsent ==
    data.status = "ok" =>
        \A c \in DOMAIN data.map : \A k \in 1..Len(data.map[c]) :
            ~(IsInt(data.map[c][k]) /\ data.map[c][k].int = 9999)

\* Row j of the result, put together from the returned columns
ResultRow(j) == [i \in 1..Len(table.cols) |-> data.map[table.cols[i]][j]]

\* A timestamp 'YYYY-MM-DD HH:00:00' as a number that grows with time
StampKey(v) ==
    ((ToNat(SubSeq(v.text, 1, 4)) * 100 + ToNat(SubSeq(v.text, 6, 7))) * 100
        + ToNat(SubSeq(v.text, 9, 10))) * 100 + ToNat(SubSeq(v.text, 12, 13))

\* The result holds, for every column of the table, the values of exactly the
\* stored rows of the storm, by ascending timestamp
StormObsComplete ==
    /\ DOMAIN data.map = {table.cols[i] : i \in 1..Len(table.cols)}
    /\ \A c \in DOMAIN data.map : Len(data.map[c]) = Cardinality(Matching)
    /\ \A j \in 1..(Cardinality(Matching) - 1) :
          StampKey(data.map["TIME"][j]) <= StampKey(data.map["TIME"][j + 1])
    /\ \A r \in {StoredRows[k] : k \in Matching} :
          Cardinality({j \in 1..Cardinality(Matching) : ResultRow(j) = r})
              = Cardinality({k \in Matching : StoredRows[k] = r})

\* C8 as stated: for every argument the result holds every column of the table
C8_EveryColumn == data.status = "ok" => StormObsComplete

\* C8: for an argument that at least one stored row matches, get_storm_obs returns
\* for every column of the table the values of exactly the stored rows of that
\* storm, by ascending timestamp, all sequences of the length of their number.
C8_StormObs == (data.status = "ok" /\ Matching # {}) => StormObsComplete

\* rows of the storm that were inserted out of the order of their timestamps
C8_Witness ==
    /\ data.status = "ok"
    /\ \E k, m \in Matching : k < m /\ StampKey(StoredRows[m][2]) < StampKey(StoredRows[k][2])
    /\ \E k \in 1..Len(StoredRows) : k \notin Matching

\* C9: asked for a storm no stored row matches, get_storm_obs returns an empty
\* result and raises nothing, whatever the table holds.
C9_NoMatchIsEmpty ==
    (ATCF_ID # "" /\ table.exists /\ Matching = {}) =>
        (data.status = "ok" /\ DOMAIN data.map = {})

C9_Witness == data.status = "ok" /\ Matching = {} /\ StoredRows # << >>

\* C10: a parameter line of a later block whose name is no column of the table is
\* dropped: the row is left as it is and the run goes on.
C10_UnknownParamDropped ==
    [][(/\ pc = "parsing"
        /\ line # ""
        /\ linenum > 1
        /\ name \notin {IndexError, "HEAD", "LAST"}
        /\ Len(fields) >= 3
        /\ \A i \in 1..Len(table.cols) : table.cols[i] # name)
          => (pc' = "parsing" /\ row' = row)]_vars

\* C11: parse_and_save_to_db run twice in a row on the same file leaves the table
\* with the column list and the rows of the first run: the second run ends as the
\* first did, and nothing of the first run is duplicated or left over.
C11_RerunSameTable ==
    runs >= 2 => (pc # "failed" /\ (pc = "done" => (table = first /\ tx = << >>)))

\* a second run over a file of which a batch is committed
C11_Witness == pc = "done" /\ runs = 2 /\ Len(table.rows) >= BatchSize

\* C12: in every execution of the setup script, when parse_and_save_to_db is
\* called the raw text file and the documentation file both exist, also when the
\* download failed and when the raw file was there before.
C12_FilesExistAtIngestion == at = "parse" => (rawfile.exists /\ docfile)

\* The exceptions a failing download raises
DownloadErrors == OpenErrors \cup ReadErrors

\* C13: whenever the download fails after the raw file was opened or partly
\* written, whatever the entry, the point and the kind of failure, the partial
\* file is removed: it does not exist when the script is run again.
C13_PartialFileRemoved == exc \in DownloadErrors => ~rawfile.exists

\* The first colon of l, 0 when it has none
FirstColon(l) ==
    IF \E i \in 1..Len(l) : At(l, i) = ":"
    THEN CHOOSE i \in 1..Len(l) : At(l, i) = ":" /\ \A j \in 1..(i - 1) : At(l, j) # ":"
    ELSE 0

\* The code of a line and its description, split at the first colon only
CodeOf(l) == IF FirstColon(l) = 0 THEN strip(l) ELSE strip(SubSeq(l, 1, FirstColon(l) - 1))

DescrOf(l) == IF FirstColon(l) = 0 THEN "" ELSE strip(SliceFrom(l, FirstColon(l)))

\* C14: load_documentation maps the code of each line (the text before the first
\* colon, trimmed) to the text after the first colon with only leading and trailing
\* whitespace removed, colons in the description included; of lines with the same
\* code the last wins.
C14_SplitOnFirstColon ==
    /\ DOMAIN parameter_descriptions = {CodeOf(doclines[i]) : i \in 1..docpos}
    /\ \A i \in 1..docpos :
          (\A j \in (i + 1)..docpos : CodeOf(doclines[j]) # CodeOf(doclines[i]))
              => parameter_descriptions[CodeOf(doclines[i])] = DescrOf(doclines[i])

\* The row name of a line as the resolution rule gives it: the second-to-last token
\* when the last is all digits, the last otherwise ("" where there is none)
RowNameOf(l) ==
    LET fs == split(strip(l))
    IN  IF fs = << >> THEN ""
        ELSE IF ~AllDigits(fs[Len(fs)]) THEN fs[Len(fs)]
        ELSE IF Len(fs) >= 2 THEN fs[Len(fs) - 1] ELSE ""

\* The row name and field 2 of every line of every kind of block, worked out once
RowNameTable ==
    [k \in BlockKinds |-> [i \in 1..Len(BlockLines(k)) |-> RowNameOf(BlockLines(k)[i])]]

Field2Table ==
    [k \in BlockKinds |->
        [i \in 1..Len(BlockLines(k)) |->
            LET fs == split(strip(BlockLines(k)[i]))
            IN  IF Len(fs) >= 3 THEN fs[3] ELSE ""]]

\* The kind of block line i of the file belongs to, and its place in the block
RECURSIVE PlaceOf(_, _)
PlaceOf(inp, i) ==
    LET seg == Head(inp)
        bl  == BlockLines(seg.kind)
    IN  IF i <= SegLines(seg) THEN <<seg.kind, ((i - 1) % Len(bl)) + 1>>
        ELSE PlaceOf(Tail(inp), i - SegLines(seg))

RowNameAt(inp, i) == RowNameTable[PlaceOf(inp, i)[1]][PlaceOf(inp, i)[2]]

\* The parameter names of the first block from line i on: the row names up to the
\* block's end (its LAST line, the next HEAD or the end of the file), TIME left out
RECURSIVE FirstBlockParams(_, _)
FirstBlockParams(inp, i) ==
    IF i > NumLines(inp) \/ RowNameAt(inp, i) \in {"", "LAST", "HEAD"} THEN << >>
    ELSE IF RowNameAt(inp, i) = "TIME" THEN FirstBlockParams(inp, i + 1)
    ELSE <<RowNameAt(inp, i)>> \o FirstBlockParams(inp, i + 1)

\* C15: the column list of the created table is ATCF_ID, TIME, then the parameter
\* names of the first block that are not excluded, in first-seen order; it is
\* derived once and no later block changes it.
C15_ColumnsOfFirstBlock ==
    (table.exists /\ FirstLineIsHead(input)) =>
        table.cols = <<"ATCF_ID", "TIME">> \o FirstBlockParams(input, 2)

C16_Step ==
    \* a LAST line leaves the row of its block where it is: the batch does not
    \* grow, and nothing but rows of the batch goes into the table
    /\ (pc = "parsing" /\ line # "" /\ RowNameOf(line) = "LAST")
          => /\ row' = row
             /\ rows' \in {rows, << >>}
             /\ Len(table'.rows) + Len(tx') + Len(rows')
                   <= Len(table.rows) + Len(tx) + Len(rows)
                      + (IF pc' = "failed" THEN Len(rows) ELSE 0)
    \* the batch grows by the row only when a HEAD line is read
    /\ (pc = "parsing" /\ rows' # rows /\ rows' # << >>)
          => (RowNameOf(line) = "HEAD" /\ row # << >> /\ rows' = Append(rows, row))

\* C16: handling a LAST line never emits the row of the block it ends: right after
\* it the row is neither in the batch nor in the table; it enters the batch only
\* when the next HEAD line is read or the input ends.
C16_LastNeverEmits == [][C16_Step]_vars

\* right after the LAST line that flushed the batch: the row of its block is pending
C16_Witness ==
    pc = "parsing" /\ rows = << >> /\ row # << >> /\ Len(table.rows) >= BatchSize

\* C17: the batch is bounded by the batch size: in every state of
\* parse_and_save_to_db it holds at most 100 rows, and every flush writes the whole
\* batch (100 rows) in one commit and leaves it empty.
C17_BatchBounded == Len(rows) <= BatchSize

\* The line of the last HEAD before line n, 0 when there is none
RECURSIVE HeadBefore(_, _)
HeadBefore(inp, n) ==
    IF n <= 1 THEN 0
    ELSE IF RowNameAt(inp, n - 1) = "HEAD" THEN n - 1
    ELSE HeadBefore(inp, n - 1)

\* The parameter lines (their numbers, in order) of the block of lines a..b, the
\* excluded TIME aside
RECURSIVE ParamLinesOf(_, _, _)
ParamLinesOf(inp, a, b) ==
    IF a > b THEN << >>
    ELSE IF RowNameAt(inp, a) \in {"", "HEAD", "LAST", "TIME"}
         THEN ParamLinesOf(inp, a + 1, b)
         ELSE <<a>> \o ParamLinesOf(inp, a + 1, b)

\* Their names, and field 2 of each
NamesAt(inp, ls) == [j \in 1..Len(ls) |-> RowNameAt(inp, ls[j])]

Field2(inp, n) == Field2Table[PlaceOf(inp, n)[1]][PlaceOf(inp, n)[2]]

SetOf(seq) == {seq[j] : j \in 1..Len(seq)}

\* The HEAD line read at linenum finalizes the row of the block before it: after
\* identifier and timestamp the row holds one value for each retained parameter P
\* of the first block, at the place of column P, and it is field 2 of the block's
\* line named P
RowHoldsItsBlock ==
    LET ls == ParamLinesOf(input, HeadBefore(input, linenum) + 1, linenum - 1)
        ps == FirstBlockParams(input, 2)
    IN  /\ rows' = Append(rows, row)
        /\ Len(row) = 2 + Len(ps)
        /\ \A c \in 1..Len(ps) :
              /\ table.cols[2 + c] = ps[c]
              /\ \E j \in 1..Len(ls) :
                    /\ NamesAt(input, ls)[j] = ps[c]
                    /\ row[2 + c] = Field2(input, ls[j])

\* A row is finalized by the step: a HEAD line is handled while a row is pending
Finalizes == pc = "parsing" /\ pc' = "parsing" /\ row # << >> /\ RowNameOf(line) = "HEAD"

\* C18 as stated: the block holds the same parameter names as the first block
C18_SameNames ==
    [][(/\ Finalizes
        /\ SetOf(NamesAt(input, ParamLinesOf(input, HeadBefore(input, linenum) + 1, linenum - 1)))
              = SetOf(FirstBlockParams(input, 2)))
          => RowHoldsItsBlock]_vars

\* C18: for every finalized row and every retained parameter column P the value in
\* column P is field 2 of the line named P of the row's own block, values of the
\* excluded TIME never being appended, provided the block holds the parameter names
\* of the first block, each once and in the same order.
C18_ValueIsField2 ==
    [][(/\ Finalizes
        /\ NamesAt(input, ParamLinesOf(input, HeadBefore(input, linenum) + 1, linenum - 1))
              = FirstBlockParams(input, 2))
          => RowHoldsItsBlock]_vars

\* the row of a second block of two parameters, in the order of the first, finalized
C18_Witness ==
    /\ Len(rows) >= 2
    /\ rows[2] = <<"AL011982", "1982-06-25 06:00:00", "12", "9999">>
    /\ table.cols = <<"ATCF_ID", "TIME", "SHRD", "RHLO">>

\* The identifier and the timestamp of the row of each kind of block, as the table
\* holds them; no block has a HEAD line but as its first line
HeadKeyTable ==
    [k \in {j \in BlockKinds : RowNameTable[j][1] = "HEAD"} |->
        LET l == BlockLines(k)[1]
        IN  <<[text |-> split(l)[Len(split(l)) - 1]], Affinity(ExpectedStamp(l))>>]

\* The kind of the i-th block of the file, "" past the last
RECURSIVE NthBlock(_, _)
NthBlock(inp, i) ==
    IF inp = << >> THEN ""
    ELSE LET seg == Head(inp)
             c   == IF seg.kind \in DOMAIN HeadKeyTable THEN seg.n ELSE 0
         IN  IF i <= c THEN seg.kind ELSE NthBlock(Tail(inp), i - c)

\* The rows of the table are the rows of the first blocks of the file, in its order
PrefixOfBlocks ==
    \A i \in 1..Len(table.rows) :
        /\ NthBlock(input, i) # ""
        /\ SubSeq(table.rows[i], 1, 2) = HeadKeyTable[NthBlock(input, i)]

\* C19: in every state of an ingestion run the rows of the table are a prefix of
\* the file's sequence of blocks, in its order and each block's row at most once,
\* and the number of rows the table holds is a multiple of the batch size.
C19_PrefixInBatches == PrefixOfBlocks /\ Len(table.rows) % BatchSize = 0

\* The row names from line i up to the end of the first block as the rule of the row
\* names finds it (a line that resolves to LAST; the file is read no further than
\* its first blank line), HEAD aside
RECURSIVE NamesToLast(_, _)
NamesToLast(inp, i) ==
    IF i > NumLines(inp) \/ RowNameAt(inp, i) \in {"", "LAST"} THEN << >>
    ELSE IF RowNameAt(inp, i) = "HEAD" THEN NamesToLast(inp, i + 1)
    ELSE <<RowNameAt(inp, i)>> \o NamesToLast(inp, i + 1)

\* C20: the row name of a line of two tokens or more is the second-to-last token
\* when the last one is all digits and the last token otherwise, and both passes
\* over the file end a block by that rule: the schema pass collects the names up to
\* the first line that resolves to LAST, as the row pass ends its block there.
C20_SameRowNameRule ==
    pc = "parsing" =>
        /\ (line # "" /\ Len(fields) >= 2) => name = RowNameOf(line)
        /\ get_diag_names(input).names = NamesToLast(input, 1)

====
